---- MODULE Spec2Model ----
(***************************************************************************)
(* Model of the image enhancer's App component, its record type ImageFile   *)
(* and the enhancement client enhanceImage.                                *)
(*                                                                         *)
(* The state is the React state of App (images, isProcessing, isZipping)   *)
(* plus every asynchronous handler that is suspended at an await.  A step  *)
(* is one setState call or one resumption of a handler.  JavaScript runs   *)
(* one task at a time: an external event (a click, a FileReader load, a    *)
(* network response) is only taken when no handler has a continuation      *)
(* that is ready to run (Quiescent).                                       *)
(***************************************************************************)
EXTENDS Integers, Sequences, FiniteSets, TLC

\* ------------------------------------------------------------- bounds
MaxImages  == 2   \* files accepted in total (records in the list plus in flight)
MaxFiles   == 2   \* files in one FileList
MaxUploads == 2   \* handleFileChange calls suspended at the same time
MaxClock   == 1   \* Date.now() takes the values 0..MaxClock
MaxRuns    == 2   \* slots for suspended enhanceAllImages calls

\* ------------------------------------------------------------- ImageFile
IDLE      == "Waiting"
ENHANCING == "Enhancing"
SUCCESS   == "Success"
ERROR     == "Error"

ImageFileStatus == {IDLE, ENHANCING, SUCCESS, ERROR}

\* A string is kept as the sequence String.split gives: a file name as its
\* '.'-separated parts, a media type as its '/'-separated parts.
PngFile  == [name |-> <<"a", "png">>,  type |-> <<"image", "png">>,  content |-> "A"]
JpegFile == [name |-> <<"a", "jpeg">>, type |-> <<"image", "jpeg">>, content |-> "B"]
TextFile == [name |-> <<"n", "txt">>,  type |-> <<"text", "plain">>, content |-> "C"]

Files == {PngFile, JpegFile, TextFile}

\* The FileList values a picker or a drop can deliver.
FileLists == UNION {[1..n -> Files] : n \in 1..MaxFiles}

\* enhancedSrc: string | null, a data URL `data:${type};base64,${data}`.
Null == [mime |-> <<>>, data |-> "null"]

\* error?: string, absent until a failure is recorded.
Undefined == <<>>

\* process.env.API_KEY is fixed for the life of the page.
VARIABLES
  images,        \* useState<ImageFile[]>
  isProcessing,  \* useState<boolean>
  isZipping,     \* useState<boolean>
  apiKey,        \* whether process.env.API_KEY is set
  clock,         \* Date.now()
  uploads,       \* handleFileChange calls suspended in fileToDataURL
  runs,          \* enhanceAllImages calls in progress
  zipJob,        \* the handleDownloadAll call in progress
  archive,       \* the archive the last handleDownloadAll call handed to the browser
  inFlight,      \* generateContent calls awaiting their response
  outcome        \* history: how the last call of a download handler ended

vars == <<images, isProcessing, isZipping, apiKey, clock, uploads, runs,
          zipJob, archive, inFlight, outcome>>

\* ------------------------------------------------------------- helpers
\* file.type.startsWith('image/')
IsImage(file) == Len(file.type) >= 2 /\ file.type[1] = "image"

\* fileToDataURL: the reader's result for the file.
fileToDataURL(file) == [mime |-> file.type, data |-> file.content]

\* fileToBase64: dataUrl.split(',')[1]
fileToBase64(dataUrl) == dataUrl.data

\* `${file.name}-${Date.now()}`
MakeId(file, now) == <<file.name, now>>

\* The record handleFileChange pushes for a file read at time now.
NewImageFile(file, now) ==
  [id          |-> MakeId(file, now),
   file        |-> file,
   originalSrc |-> fileToDataURL(file),
   enhancedSrc |-> Null,
   status      |-> IDLE,
   error       |-> Undefined]

\* The index of the first image file of files at or after from, Len(files)+1 if none.
RECURSIVE NextImage(_, _)
NextImage(files, from) ==
  IF from > Len(files) THEN Len(files) + 1
  ELSE IF IsImage(files[from]) THEN from
  ELSE NextImage(files, from + 1)

\* images.find(img => img.id === id): the index of the first match, 0 if none.
RECURSIVE FindFrom(_, _, _)
FindFrom(list, id, i) ==
  IF i > Len(list) THEN 0
  ELSE IF list[i].id = id THEN i
  ELSE FindFrom(list, id, i + 1)

Find(list, id) == FindFrom(list, id, 1)

IsIdle(img) == img.status = IDLE

\* images.filter(img => img.status === ImageFileStatus.IDLE)
IdleImages(list) == SelectSeq(list, IsIdle)

IsSuccessful(img) == img.status = SUCCESS /\ img.enhancedSrc # Null

\* images.filter(img => img.status === SUCCESS && img.enhancedSrc)
SuccessfulImages(list) == SelectSeq(list, IsSuccessful)

idleImageCount == Len(IdleImages(images))

HasStatusSuccess(img) == img.status = SUCCESS

successfulImageCount == Len(SelectSeq(images, HasStatusSuccess))

\* prev.map(img => img.id === id ? { ...img, status: ENHANCING } : img)
MarkEnhancing(prev, id) ==
  [i \in 1..Len(prev) |->
     IF prev[i].id = id THEN [prev[i] EXCEPT !.status = ENHANCING] ELSE prev[i]]

\* prev.map(img => img.id === id ? { ...img, status: SUCCESS, enhancedSrc } : img)
MarkSuccess(prev, id, enhancedSrc) ==
  [i \in 1..Len(prev) |->
     IF prev[i].id = id
     THEN [prev[i] EXCEPT !.status = SUCCESS, !.enhancedSrc = enhancedSrc]
     ELSE prev[i]]

\* prev.map(img => img.id === id ? { ...img, status: ERROR, error: errorMessage } : img)
MarkError(prev, id, errorMessage) ==
  [i \in 1..Len(prev) |->
     IF prev[i].id = id
     THEN [prev[i] EXCEPT !.status = ERROR, !.error = errorMessage]
     ELSE prev[i]]

\* ------------------------------------------------------------- enhanceImage
ApiKeyMessage  == <<"API key not found in environment variables.">>
NoImageMessage == <<"No enhanced image found in the API response.">>
UnknownMessage == <<"An unknown error occurred during image enhancement.">>

\* `Failed to enhance image: ${error.message}`
FailedMessage(message) == <<"Failed to enhance image: ">> \o message

\* throw new Error(message): what the caller's catch block receives.
NewError(message) ==
  [ok |-> FALSE, data |-> "none", message |-> message, isError |-> TRUE]

\* What generateContent can do: resolve with an ordered list of content parts
\* (a part is "text" or the data of an inline image), reject with an Error, or
\* reject with a value that is no Error.
Responses ==
  {[kind |-> "parts", parts |-> p, message |-> <<>>] :
      p \in {<<>>, <<"text">>, <<"text", "E1">>, <<"E1", "E2">>}}
  \cup {[kind |-> "error",  parts |-> <<>>, message |-> <<"network">>],
        [kind |-> "thrown", parts |-> <<>>, message |-> <<>>]}

\* for (const part of parts) if (part.inlineData?.data) return part.inlineData.data
RECURSIVE FirstImage(_, _)
FirstImage(parts, i) ==
  IF i > Len(parts) THEN "none"
  ELSE IF parts[i] # "text" THEN parts[i]
  ELSE FirstImage(parts, i + 1)

\* enhanceImage with the catch block rethrowing what it caught (throw error): a
\* rejection of generateContent with a value that is no Error reaches the caller
\* as that value.
EnhanceImageSettleRethrow(response) ==
  IF response.kind = "parts" /\ FirstImage(response.parts, 1) # "none"
  THEN [ok |-> TRUE, data |-> FirstImage(response.parts, 1), message |-> <<>>,
        isError |-> FALSE]
  ELSE IF response.kind = "parts"
  THEN NewError(NoImageMessage)
  ELSE IF response.kind = "error"
  THEN NewError(response.message)
  ELSE [ok |-> FALSE, data |-> "none", message |-> <<>>, isError |-> FALSE]

\* The settlement of enhanceImage once generateContent has settled with response.
EnhanceImageSettle(response) ==
  IF response.kind = "parts" /\ FirstImage(response.parts, 1) # "none"
  THEN [ok |-> TRUE, data |-> FirstImage(response.parts, 1), message |-> <<>>,
        isError |-> FALSE]
  ELSE IF response.kind = "parts"
  THEN NewError(FailedMessage(NoImageMessage))
  ELSE IF response.kind = "error"
  THEN NewError(FailedMessage(response.message))
  ELSE NewError(UnknownMessage)

\* ------------------------------------------------------------- handler state
NoUpload == [active |-> FALSE, files |-> <<>>, i |-> 0, newImageFiles |-> <<>>]
NoRun    == [pc |-> "idle", images |-> <<>>, k |-> 0, thrown |-> <<>>]
NoZipJob == [pc |-> "idle", successfulImages |-> <<>>, k |-> 0, zip |-> <<>>]
NoArchive == [made |-> FALSE, entries |-> <<>>, of |-> <<>>]

\* No download handler has been called since the last Download All click.
NoName    == [base |-> <<>>, ext |-> ""]
NoOutcome == [op |-> "none", pos |-> 0, name |-> NoName]
Ended(op) == [op |-> op, pos |-> 0, name |-> NoName]

\* No handler has a continuation ready to run: the event loop takes the next event.
Quiescent == \A r \in 1..MaxRuns : runs[r].pc \in {"idle", "await"}

\* Files accepted and not yet in the list.
RECURSIVE Pending(_)
Pending(u) == IF u = 0 THEN 0 ELSE Len(uploads[u].files) + Pending(u - 1)

Init ==
  /\ images = <<>>
  /\ isProcessing = FALSE
  /\ isZipping = FALSE
  /\ apiKey \in BOOLEAN
  /\ clock = 0
  /\ uploads = [u \in 1..MaxUploads |-> NoUpload]
  /\ runs = [r \in 1..MaxRuns |-> NoRun]
  /\ zipJob = NoZipJob
  /\ archive = NoArchive
  /\ inFlight = 0
  /\ outcome = NoOutcome

\* ------------------------------------------------------------- Date.now()
Tick ==
  /\ clock < MaxClock
  /\ clock' = clock + 1
  /\ UNCHANGED <<images, isProcessing, isZipping, apiKey, uploads, runs,
                 zipJob, archive, inFlight, outcome>>

\* ------------------------------------------------------------- handleFileChange
\* The call runs to its first await (the read of the first image file); with no
\* image file it runs to its end and appends nothing.
HandleFileChange(u, files) ==
  /\ Quiescent
  /\ ~uploads[u].active
  /\ \A v \in 1..(u - 1) : uploads[v].active
  /\ Len(images) + Pending(MaxUploads) + Len(files) <= MaxImages
  /\ LET j == NextImage(files, 1) IN
       IF j > Len(files)
       THEN /\ images' = images \o <<>>
            /\ uploads' = uploads
       ELSE /\ images' = images
            /\ uploads' = [uploads EXCEPT ![u] =
                 [active |-> TRUE, files |-> files, i |-> j, newImageFiles |-> <<>>]]
  /\ UNCHANGED <<isProcessing, isZipping, apiKey, clock, runs, zipJob, archive, inFlight, outcome>>

\* ReadLoaded with setImages(newImageFiles): the new records replace the list.
ReadLoadedReplace(u) ==
  /\ Quiescent
  /\ uploads[u].active
  /\ LET up  == uploads[u]
         new == Append(up.newImageFiles, NewImageFile(up.files[up.i], clock))
         j   == NextImage(up.files, up.i + 1)
     IN IF j > Len(up.files)
        THEN /\ images' = new
             /\ uploads' = [uploads EXCEPT ![u] = NoUpload]
        ELSE /\ images' = images
             /\ uploads' = [uploads EXCEPT ![u].i = j, ![u].newImageFiles = new]
  /\ UNCHANGED <<isProcessing, isZipping, apiKey, clock, runs, zipJob, archive,
                 inFlight, outcome>>

\* reader.onload: the record is pushed with the id of this instant, and the call
\* goes on to the next image file, or appends its records to the latest list.
ReadLoaded(u) ==
  /\ Quiescent
  /\ uploads[u].active
  /\ LET up  == uploads[u]
         new == Append(up.newImageFiles, NewImageFile(up.files[up.i], clock))
         j   == NextImage(up.files, up.i + 1)
     IN IF j > Len(up.files)
        THEN /\ images' = images \o new
             /\ uploads' = [uploads EXCEPT ![u] = NoUpload]
        ELSE /\ images' = images
             /\ uploads' = [uploads EXCEPT ![u].i = j, ![u].newImageFiles = new]
  /\ UNCHANGED <<isProcessing, isZipping, apiKey, clock, runs, zipJob, archive, inFlight, outcome>>

\* reader.onerror: the promise rejects, the call ends and setImages is never reached.
ReadFailed(u) ==
  /\ Quiescent
  /\ uploads[u].active
  /\ uploads' = [uploads EXCEPT ![u] = NoUpload]
  /\ UNCHANGED <<images, isProcessing, isZipping, apiKey, clock, runs, zipJob,
                 archive, inFlight, outcome>>

\* ------------------------------------------------------------- enhanceAllImages
\* The button: disabled={isProcessing || idleImageCount === 0}
EnhanceAllEnabled == ~(isProcessing \/ idleImageCount = 0)

\* The snapshot of run r: images.filter(IDLE) over the list the handler closed over.
idleImages(r) == IdleImages(runs[r].images)

\* The click: setIsProcessing(true), and the loop starts over the Idle records
\* of the rendered list.
EnhanceAllImages(r) ==
  /\ Quiescent
  /\ EnhanceAllEnabled
  /\ runs[r].pc = "idle"
  /\ \A q \in 1..(r - 1) : runs[q].pc # "idle"
  /\ isProcessing' = TRUE
  /\ runs' = [runs EXCEPT ![r] = [pc |-> "loop", images |-> images, k |-> 1,
                                  thrown |-> <<>>]]
  /\ UNCHANGED <<images, isZipping, apiKey, clock, uploads, zipJob, archive, inFlight, outcome>>

\* EnhanceSingleBegin with the key check of enhanceImage left out: the request is
\* sent whether or not a key is configured.
EnhanceSingleBeginNoKeyCheck(r) ==
  /\ runs[r].pc = "loop"
  /\ runs[r].k <= Len(idleImages(r))
  /\ LET id == idleImages(r)[runs[r].k].id IN
       /\ Find(runs[r].images, id) # 0
       /\ images' = MarkEnhancing(images, id)
  /\ inFlight' = inFlight + 1
  /\ runs' = [runs EXCEPT ![r].pc = "await"]
  /\ UNCHANGED <<isProcessing, isZipping, apiKey, clock, uploads, zipJob, archive, outcome>>

\* enhanceSingleImage up to its await: the record is looked up in the list the
\* handler closed over, every record with the id is marked Enhancing in the
\* latest list, and enhanceImage is called: without a key it throws before any
\* request, with one it calls generateContent.
EnhanceSingleBegin(r) ==
  /\ runs[r].pc = "loop"
  /\ runs[r].k <= Len(idleImages(r))
  /\ LET id == idleImages(r)[runs[r].k].id IN
       /\ Find(runs[r].images, id) # 0
       /\ images' = MarkEnhancing(images, id)
  /\ IF apiKey
     THEN /\ inFlight' = inFlight + 1
          /\ runs' = [runs EXCEPT ![r].pc = "await"]
     ELSE /\ inFlight' = inFlight
          /\ runs' = [runs EXCEPT ![r].pc = "catch", ![r].thrown = ApiKeyMessage]
  /\ UNCHANGED <<isProcessing, isZipping, apiKey, clock, uploads, zipJob, archive, outcome>>

\* error instanceof Error ? error.message : 'An unknown error occurred.'
FallbackMessage == <<"An unknown error occurred.">>
ErrorMessage(error) == IF error.isError THEN error.message ELSE FallbackMessage

\* The list after enhanceSingleImage(id) has settled with result, where
\* imageToEnhance is the record found in the closed-over list.
SettleSingle(prev, imageToEnhance, result) ==
  IF result.ok
  THEN MarkSuccess(prev, imageToEnhance.id,
                   [mime |-> imageToEnhance.file.type, data |-> result.data])
  ELSE MarkError(prev, imageToEnhance.id, ErrorMessage(result))

\* RemoteSettled with the try/catch of enhanceSingleImage left out: a failure
\* rejects enhanceSingleImage and with it enhanceAllImages, which ends there.
RemoteSettledUncaught(r, response) ==
  /\ Quiescent
  /\ runs[r].pc = "await"
  /\ LET id  == idleImages(r)[runs[r].k].id
         img == runs[r].images[Find(runs[r].images, id)]
         res == EnhanceImageSettle(response)
     IN IF res.ok
        THEN /\ images' = SettleSingle(images, img, res)
             /\ runs' = [runs EXCEPT ![r].pc = "loop", ![r].k = runs[r].k + 1]
        ELSE /\ images' = images
             /\ runs' = [runs EXCEPT ![r] = NoRun]
  /\ inFlight' = inFlight - 1
  /\ UNCHANGED <<isProcessing, isZipping, apiKey, clock, uploads, zipJob, archive, outcome>>

\* generateContent settles: enhanceImage returns the first image payload or
\* throws, and enhanceSingleImage records Success or Error for the id.
\* RemoteSettled writing to the list the handler closed over,
\* setImages(images.map(...)), instead of to the latest list.
RemoteSettledStale(r, response) ==
  /\ Quiescent
  /\ runs[r].pc = "await"
  /\ LET id  == idleImages(r)[runs[r].k].id
         img == runs[r].images[Find(runs[r].images, id)]
     IN images' = SettleSingle(runs[r].images, img, EnhanceImageSettle(response))
  /\ inFlight' = inFlight - 1
  /\ runs' = [runs EXCEPT ![r].pc = "loop", ![r].k = runs[r].k + 1]
  /\ UNCHANGED <<isProcessing, isZipping, apiKey, clock, uploads, zipJob, archive, outcome>>

RemoteSettled(r, response) ==
  /\ Quiescent
  /\ runs[r].pc = "await"
  /\ LET id  == idleImages(r)[runs[r].k].id
         img == runs[r].images[Find(runs[r].images, id)]
     IN images' = SettleSingle(images, img, EnhanceImageSettle(response))
  /\ inFlight' = inFlight - 1
  /\ runs' = [runs EXCEPT ![r].pc = "loop", ![r].k = runs[r].k + 1]
  /\ UNCHANGED <<isProcessing, isZipping, apiKey, clock, uploads, zipJob, archive, outcome>>

\* The catch block for the error enhanceImage threw before any request.
CatchThrown(r) ==
  /\ runs[r].pc = "catch"
  /\ LET id  == idleImages(r)[runs[r].k].id
         img == runs[r].images[Find(runs[r].images, id)]
     IN images' = SettleSingle(images, img, NewError(runs[r].thrown))
  /\ runs' = [runs EXCEPT ![r].pc = "loop", ![r].k = runs[r].k + 1,
                          ![r].thrown = <<>>]
  /\ UNCHANGED <<isProcessing, isZipping, apiKey, clock, uploads, zipJob, archive,
                 inFlight, outcome>>

\* EnhanceAllFinish with the last enhanceSingleImage call not awaited: the flag is
\* cleared once the last snapshot record has been reached.
EnhanceAllFinishEarly(r) ==
  /\ runs[r].pc = "loop"
  /\ runs[r].k >= Len(idleImages(r))
  /\ isProcessing' = FALSE
  /\ runs' = [runs EXCEPT ![r] = NoRun]
  /\ UNCHANGED <<images, isZipping, apiKey, clock, uploads, zipJob, archive, inFlight, outcome>>

\* The loop is over: setIsProcessing(false).
EnhanceAllFinish(r) ==
  /\ runs[r].pc = "loop"
  /\ runs[r].k > Len(idleImages(r))
  /\ isProcessing' = FALSE
  /\ runs' = [runs EXCEPT ![r] = NoRun]
  /\ UNCHANGED <<images, isZipping, apiKey, clock, uploads, zipJob, archive, inFlight, outcome>>

\* ------------------------------------------------------------- handleDownloadAll
\* The button: disabled={isZipping || successfulImageCount === 0}
DownloadAllEnabled == ~(isZipping \/ successfulImageCount = 0)

\* parts.slice(0, -1).join('.'), kept as the parts of the joined string: joining
\* no parts gives the empty string, whose split is one empty part.
OriginalName(file) ==
  IF Len(file.name) <= 1 THEN <<"">> ELSE SubSeq(file.name, 1, Len(file.name) - 1)

\* let extension = type.split('/')[1] || 'png'; if (extension === 'jpeg') extension = 'jpg'
Extension(file) ==
  LET sub == IF Len(file.type) >= 2 /\ file.type[2] # "" THEN file.type[2] ELSE "png"
  IN IF sub = "jpeg" THEN "jpg" ELSE sub

\* `${originalName}-enhanced.${extension}`
EnhancedName(file) == [base |-> OriginalName(file), ext |-> Extension(file)]

\* zip.file(name, blob): a second file of the same name replaces the first.
ZipFile(zip, name, blob) ==
  IF \E i \in 1..Len(zip) : zip[i].name = name
  THEN [i \in 1..Len(zip) |->
          IF zip[i].name = name THEN [name |-> name, blob |-> blob] ELSE zip[i]]
  ELSE Append(zip, [name |-> name, blob |-> blob])

\* HandleDownloadAllCall with setIsZipping(true) moved before the empty check.
HandleDownloadAllCallFlagFirst ==
  /\ zipJob.pc = "idle"
  /\ isZipping' = TRUE
  /\ LET successfulImages == SuccessfulImages(images) IN
       IF Len(successfulImages) = 0
       THEN /\ outcome' = Ended("empty")
            /\ UNCHANGED <<zipJob, archive>>
       ELSE /\ zipJob' = [pc |-> "fetch", successfulImages |-> successfulImages,
                          k |-> 1, zip |-> <<>>]
            /\ archive' = NoArchive
            /\ outcome' = NoOutcome
  /\ UNCHANGED <<images, isProcessing, apiKey, clock, uploads, runs, inFlight>>

\* handleDownloadAll up to its first await: the Success records of the rendered
\* list are collected; with none the handler returns, otherwise setIsZipping(true)
\* and the first fetch starts.
HandleDownloadAllCall ==
  /\ zipJob.pc = "idle"
  /\ LET successfulImages == SuccessfulImages(images) IN
       IF Len(successfulImages) = 0
       THEN /\ outcome' = Ended("empty")
            /\ UNCHANGED <<isZipping, zipJob, archive>>
       ELSE /\ isZipping' = TRUE
            /\ zipJob' = [pc |-> "fetch", successfulImages |-> successfulImages,
                          k |-> 1, zip |-> <<>>]
            /\ archive' = NoArchive
            /\ outcome' = NoOutcome
  /\ UNCHANGED <<images, isProcessing, apiKey, clock, uploads, runs, inFlight>>

\* The click on the Download All button.
HandleDownloadAll ==
  /\ Quiescent
  /\ DownloadAllEnabled
  /\ HandleDownloadAllCall

\* fetch and response.blob() returned: the entry is added, and the loop goes on to
\* the next fetch or to zip.generateAsync.
FetchDone ==
  /\ Quiescent
  /\ zipJob.pc = "fetch"
  /\ LET image == zipJob.successfulImages[zipJob.k]
         zip   == ZipFile(zipJob.zip, EnhancedName(image.file), image.enhancedSrc)
     IN zipJob' = [zipJob EXCEPT !.zip = zip, !.k = zipJob.k + 1,
                     !.pc = IF zipJob.k + 1 > Len(zipJob.successfulImages)
                            THEN "generate" ELSE "fetch"]
  /\ UNCHANGED <<images, isProcessing, isZipping, apiKey, clock, uploads, runs,
                 archive, inFlight, outcome>>

\* ZipFailed with the finally block left out: the flag is not cleared.
ZipFailedNoFinally ==
  /\ Quiescent
  /\ zipJob.pc \in {"fetch", "generate"}
  /\ zipJob' = NoZipJob
  /\ outcome' = Ended(IF zipJob.pc = "fetch" THEN "fetchFailed" ELSE "generateFailed")
  /\ UNCHANGED <<images, isProcessing, isZipping, apiKey, clock, uploads, runs,
                 archive, inFlight>>

\* ZipFailed with the fetch error caught inside the loop: the entries added so
\* far are generated and downloaded.
ZipFailedPartial ==
  /\ Quiescent
  /\ zipJob.pc \in {"fetch", "generate"}
  /\ isZipping' = FALSE
  /\ zipJob' = NoZipJob
  /\ IF zipJob.pc = "fetch"
     THEN /\ archive' = [made |-> TRUE, entries |-> zipJob.zip,
                         of |-> zipJob.successfulImages]
          /\ outcome' = Ended("archive")
     ELSE /\ archive' = archive
          /\ outcome' = Ended("generateFailed")
  /\ UNCHANGED <<images, isProcessing, apiKey, clock, uploads, runs, inFlight>>

\* fetch, response.blob() or generateAsync threw: catch logs, finally clears the flag.
ZipFailed ==
  /\ Quiescent
  /\ zipJob.pc \in {"fetch", "generate"}
  /\ isZipping' = FALSE
  /\ zipJob' = NoZipJob
  /\ outcome' = Ended(IF zipJob.pc = "fetch" THEN "fetchFailed" ELSE "generateFailed")
  /\ UNCHANGED <<images, isProcessing, apiKey, clock, uploads, runs, archive, inFlight>>

\* generateAsync returned: the link is clicked, finally clears the flag.
GenerateDone ==
  /\ Quiescent
  /\ zipJob.pc = "generate"
  /\ archive' = [made |-> TRUE, entries |-> zipJob.zip, of |-> zipJob.successfulImages]
  /\ outcome' = Ended("archive")
  /\ isZipping' = FALSE
  /\ zipJob' = NoZipJob
  /\ UNCHANGED <<images, isProcessing, apiKey, clock, uploads, runs, inFlight>>

\* ------------------------------------------------------------- specification
Next ==
  \/ Tick
  \/ \E u \in 1..MaxUploads, files \in FileLists : HandleFileChange(u, files)
  \/ \E u \in 1..MaxUploads : ReadLoaded(u)
  \/ \E u \in 1..MaxUploads : ReadFailed(u)
  \/ \E r \in 1..MaxRuns : EnhanceAllImages(r)
  \/ \E r \in 1..MaxRuns : EnhanceSingleBegin(r)
  \/ \E r \in 1..MaxRuns, response \in Responses : RemoteSettled(r, response)
  \/ \E r \in 1..MaxRuns : CatchThrown(r)
  \/ \E r \in 1..MaxRuns : EnhanceAllFinish(r)
  \/ HandleDownloadAll
  \/ FetchDone
  \/ ZipFailed
  \/ GenerateDone

Spec == Init /\ [][Next]_vars

\* ------------------------------------------------------------- ImageCard
\* image.file.name.split('.').slice(0, -1).join('.')
CardOriginalName(file) ==
  IF Len(file.name) <= 1 THEN <<"">> ELSE SubSeq(file.name, 1, Len(file.name) - 1)

\* CardExtension without the replacement of 'jpeg' by 'jpg'.
CardExtensionRaw(file) ==
  IF Len(file.type) >= 2 /\ file.type[2] # "" THEN file.type[2] ELSE "png"

\* let extension = image.file.type.split('/')[1] || 'png';
\* if (extension === 'jpeg') extension = 'jpg'
CardExtension(file) ==
  LET sub == IF Len(file.type) >= 2 /\ file.type[2] # "" THEN file.type[2] ELSE "png"
  IN IF sub = "jpeg" THEN "jpg" ELSE sub

\* link.download = `${originalName}-enhanced.${extension}`
DownloadName(file) == [base |-> CardOriginalName(file), ext |-> CardExtension(file)]

\* The Download button of the card of record i, shown when the record is Success:
\* handleDownload returns without enhancedSrc, else the link is clicked.
HandleDownload(i) ==
  /\ Quiescent
  /\ images[i].status = SUCCESS
  /\ outcome' = IF images[i].enhancedSrc = Null
                THEN Ended("empty")
                ELSE [op |-> "single", pos |-> i, name |-> DownloadName(images[i].file)]
  /\ UNCHANGED <<images, isProcessing, isZipping, apiKey, clock, uploads, runs,
                 zipJob, archive, inFlight>>

\* handleDownloadAll called whatever the button shows (a call of the handler
\* itself): it differs from the click only when no record is Success.
InvokeDownloadAll ==
  /\ Quiescent
  /\ HandleDownloadAllCall

\* The handlers as the contract of each states them: the UI's steps, the direct
\* call of handleDownloadAll and the Download button of each card.
HandlerNext ==
  \/ Next
  \/ InvokeDownloadAll
  \/ \E i \in 1..MaxImages : i <= Len(images) /\ HandleDownload(i)

HandlerSpec == Init /\ [][HandlerNext]_vars

\* Scheduling: a continuation that is ready runs (the microtask queue is drained),
\* and every generateContent call settles.
RunStep ==
  \E r \in 1..MaxRuns :
     EnhanceSingleBegin(r) \/ CatchThrown(r) \/ EnhanceAllFinish(r)

RemoteStep == \E r \in 1..MaxRuns, response \in Responses : RemoteSettled(r, response)

FairSpec == Spec /\ WF_vars(RunStep) /\ WF_vars(RemoteStep)

\* Every fetch of a data URL and every generateAsync call settles.
ZipStep == FetchDone \/ ZipFailed \/ GenerateDone

ZipFairSpec == Spec /\ WF_vars(RunStep) /\ WF_vars(ZipStep)

\* ------------------------------------------------------------- properties
Positions == 1..Len(images)

Terminal(img) == img.status \in {SUCCESS, ERROR}

Active(r) == runs[r].pc # "idle"

\* The positions of the records of run r's snapshot: the Idle records of the list
\* the run started from.  The list only grows at its end, so a position names
\* the same record in every later list.
SnapshotPositions(r) ==
  {i \in 1..Len(runs[r].images) : runs[r].images[i].status = IDLE}

\* The position of the snapshot record run r is working on.
CurrentPosition(r) ==
  CHOOSE i \in SnapshotPositions(r) :
     Cardinality({j \in SnapshotPositions(r) : j <= i}) = runs[r].k

\* C1: every record has enhanced image data iff its status is Success.
C1_EnhancedIffSuccess ==
  \A i \in Positions : (images[i].enhancedSrc # Null) <=> (images[i].status = SUCCESS)

\* C2: every record has an error message iff its status is Error.
C2_ErrorIffError ==
  \A i \in Positions : (images[i].error # Undefined) <=> (images[i].status = ERROR)

\* C3: a step changes the status of a record only if the record was Idle in the
\* list a run in progress started from; a record appended during the run keeps
\* its status until the run has finished.
C3_RunTouchesOnlySnapshot ==
  [][\A i \in Positions :
       images'[i].status # images[i].status
         => \E r \in 1..MaxRuns : Active(r) /\ i \in SnapshotPositions(r)]_vars

\* C4: within a run the snapshot records are processed in list order, and a
\* snapshot record has left Idle only when every snapshot record before it has
\* reached Success or Error.
C4_InOrderOneAtATime ==
  \A r \in 1..MaxRuns : Active(r) =>
     \A i, j \in SnapshotPositions(r) :
        (i < j /\ images[j].status # IDLE) => Terminal(images[i])

\* C5: the step that records a failed enhancement changes no record but the one
\* that was being enhanced.
C5_FailureChangesOneRecord ==
  [][\A r \in 1..MaxRuns :
       (runs[r].pc \in {"await", "catch"} /\ runs'[r].pc = "loop"
          /\ images'[CurrentPosition(r)].status = ERROR)
         => \A i \in Positions : i # CurrentPosition(r) => images'[i] = images[i]]_vars

\* C6: the processing flag is true while a run is in progress, and the step that
\* clears it ends a run whose snapshot records are all in Success or Error.
C6_ProcessingUntilSnapshotDone ==
  /\ [](\A r \in 1..MaxRuns : Active(r) => isProcessing)
  /\ [][(isProcessing /\ ~isProcessing')
         => \E r \in 1..MaxRuns :
               /\ Active(r)
               /\ runs'[r].pc = "idle"
               /\ \A i \in SnapshotPositions(r) :
                     Terminal(images[i]) /\ Terminal(images'[i])]_vars

\* A run has finished: the flag is false again and a record is in Success or Error.
C6_Witness ==
  /\ ~isProcessing
  /\ \A r \in 1..MaxRuns : ~Active(r)
  /\ \E i \in Positions : Terminal(images[i])

\* The run r has processed its whole snapshot and is about to clear the flag.
SnapshotDone(r) ==
  /\ runs[r].pc = "loop"
  /\ runs[r].k > Len(idleImages(r))
  /\ isProcessing
  /\ \A i \in SnapshotPositions(r) : Terminal(images[i])

\* C7: when every remote call settles, a run in progress eventually ends with the
\* processing flag false, and a run ends only from the end of its snapshot with
\* every snapshot record in Success or Error, whatever succeeded or failed.
C7_RunEventuallyFinishes ==
  /\ (\E r \in 1..MaxRuns : Active(r))
        ~> (~isProcessing /\ \A r \in 1..MaxRuns : ~Active(r))
  /\ [][\A r \in 1..MaxRuns :
          (Active(r) /\ runs'[r].pc = "idle") => SnapshotDone(r)]_vars

\* A run is at its end after a failure followed by a success.
C7_Witness ==
  \E r \in 1..MaxRuns :
     /\ SnapshotDone(r)
     /\ \E i, j \in SnapshotPositions(r) :
           i < j /\ images[i].status = ERROR /\ images[j].status = SUCCESS

\* C8 as stated: without a credential a record that leaves Idle goes straight to
\* Error with the configuration message, and no request is in flight.
C8_DirectlyIdleToError ==
  [][~apiKey =>
       \A i \in Positions :
          (images[i].status = IDLE /\ images'[i].status # IDLE)
            => /\ images'[i].status = ERROR
               /\ images'[i].error = ApiKeyMessage
               /\ inFlight' = 0]_vars

\* C8 as amended: without a credential no request is ever in flight; a record that
\* leaves Idle becomes Enhancing, a record is Enhancing only while the catch block
\* of its enhancement is the next thing to run, and that block sets it to Error
\* with the configuration message.
C8_NoKeyEnhancingThenError ==
  /\ [](~apiKey =>
         /\ inFlight = 0
         /\ \A i \in Positions :
               images[i].status = ENHANCING
                 => \E r \in 1..MaxRuns :
                       runs[r].pc = "catch" /\ runs[r].thrown = ApiKeyMessage)
  /\ [][~apiKey =>
         \A i \in Positions :
            /\ (images[i].status = IDLE /\ images'[i].status # IDLE)
                 => images'[i].status = ENHANCING
            /\ (images[i].status = ENHANCING /\ images'[i].status # ENHANCING)
                 => /\ images'[i].status = ERROR
                    /\ images'[i].error = ApiKeyMessage]_vars

\* Without a credential a record has gone through Enhancing to Error.
C8_Witness ==
  /\ ~apiKey
  /\ inFlight = 0
  /\ \E i \in Positions :
        images[i].status = ERROR /\ images[i].error = ApiKeyMessage

\* C9: no two records of the list share an id.
C9_UniqueIds == \A i, j \in Positions : i # j => images[i].id # images[j].id

\* C10: the archive handed to the browser holds exactly one entry per record that
\* was Success at the click, so as many entries as there were Success records.
\* Stated for the clicks at which the Success records have pairwise distinct ids,
\* so that a violation does not rest on C9.
C10_OneEntryPerSuccess ==
  (archive.made /\ \A i, j \in 1..Len(archive.of) :
                      i # j => archive.of[i].id # archive.of[j].id) =>
     /\ Len(archive.entries) = Len(archive.of)
     /\ \A i \in 1..Len(archive.of) :
           \E e \in 1..Len(archive.entries) :
              archive.entries[e] = [name |-> EnhancedName(archive.of[i].file),
                                    blob |-> archive.of[i].enhancedSrc]

\* C11: the zipping flag is true exactly while a handleDownloadAll call is in
\* progress, and once true it becomes false again, whether the call ends with the
\* download, with a failed fetch or with a failed generateAsync.
C11_ZippingFlagCleared ==
  /\ [](isZipping <=> zipJob.pc # "idle")
  /\ isZipping ~> ~isZipping

\* A call has ended in the failure of generateAsync and the flag is false.
C11_Witness == outcome.op = "generateFailed" /\ ~isZipping

\* C12: a failed fetch ends the call without a download, and an archive that is
\* downloaded holds an entry for every record collected at the click.
C12_FetchFailureAborts ==
  /\ [](outcome.op = "fetchFailed" => ~archive.made /\ zipJob.pc = "idle")
  /\ [](archive.made =>
          \A i \in 1..Len(archive.of) :
             \E e \in 1..Len(archive.entries) :
                archive.entries[e].name = EnhancedName(archive.of[i].file))
  /\ [][(zipJob.pc = "fetch" /\ zipJob'.pc = "idle") => archive' = archive]_vars

\* A call has ended in a failed fetch.
C12_Witness == outcome.op = "fetchFailed" /\ ~isZipping /\ ~archive.made

\* C13: a handleDownloadAll call made when no record is Success leaves the
\* zipping flag false, starts no job and triggers no download.
C13_EmptyDownloadIsNoOp ==
  /\ [](outcome.op = "empty" => ~isZipping /\ zipJob.pc = "idle")
  /\ [][(successfulImageCount = 0 /\ outcome'.op = "empty")
         => /\ ~isZipping /\ ~isZipping'
            /\ zipJob' = zipJob
            /\ archive' = archive]_vars

\* handleDownloadAll has returned at once with records in the list, none Success.
C13_Witness ==
  /\ outcome.op = "empty"
  /\ Len(images) > 0
  /\ successfulImageCount = 0

\* C14: the name of a single download is the name the archive uses for the
\* record: the file name without its last '.'-part, "-enhanced", and the subtype
\* of the media type with jpeg replaced by jpg.
C14_SameNameAsArchive ==
  outcome.op = "single" =>
     LET img  == images[outcome.pos]
         file == img.file
     IN /\ outcome.name = EnhancedName(file)
        /\ outcome.name = [base |-> SubSeq(file.name, 1, Len(file.name) - 1),
                           ext  |-> IF file.type[2] = "jpeg" THEN "jpg"
                                    ELSE file.type[2]]
        /\ \A j \in 1..Len(zipJob.successfulImages) :
              (j < zipJob.k /\ zipJob.successfulImages[j].file = file)
                => \E e \in 1..Len(zipJob.zip) : zipJob.zip[e].name = outcome.name
        /\ \A j \in 1..Len(archive.of) :
              archive.of[j].file = file
                => \E e \in 1..Len(archive.entries) :
                      archive.entries[e].name = outcome.name

\* A jpeg record was downloaded as an archive entry and then on its own.
C14_Witness ==
  /\ outcome.op = "single"
  /\ outcome.name.ext = "jpg"
  /\ archive.made
  /\ \E j \in 1..Len(archive.of) : archive.of[j].file = images[outcome.pos].file

\* C15: every step leaves the list before it as a prefix of the list after it
\* when records are compared by id, file and original data.
C15_AppendOnly ==
  [][/\ Len(images') >= Len(images)
     /\ \A i \in Positions :
           /\ images'[i].id = images[i].id
           /\ images'[i].file = images[i].file
           /\ images'[i].originalSrc = images[i].originalSrc]_vars

\* Two uploads have appended a record each and a run has enhanced the first.
C15_Witness ==
  /\ Len(images) >= 2
  /\ images[1].status = SUCCESS
  /\ images[2].status = IDLE
  /\ \A u \in 1..MaxUploads : ~uploads[u].active

\* The files of a list whose media type begins with "image/", in input order.
TypeBeginsWithImage(file) == file.type[1] = "image" /\ Len(file.type) >= 2

\* The step that ends upload u appends one Idle record per image file of the
\* upload's list, in input order, and nothing else.
AppendsOnePerImage(u) ==
  LET want == SelectSeq(uploads[u].files, TypeBeginsWithImage) IN
    /\ Len(images') = Len(images) + Len(want)
    /\ \A i \in Positions : images'[i] = images[i]
    /\ \A j \in 1..Len(want) :
          /\ images'[Len(images) + j].file = want[j]
          /\ images'[Len(images) + j].status = IDLE

\* C16: for every upload, the records appended are exactly one Idle record per
\* file whose media type begins with "image/", in input order.
C16_OneRecordPerImageFile ==
  [][\A u \in 1..MaxUploads :
       (uploads[u].active /\ ~uploads'[u].active) => AppendsOnePerImage(u)]_vars

\* The status changes a record may make.
Transitions == {<<IDLE, ENHANCING>>, <<ENHANCING, SUCCESS>>, <<ENHANCING, ERROR>>}

\* The id of the record run r is working on.
CurrentId(r) == idleImages(r)[runs[r].k].id

\* C17: every status change of a record is Idle to Enhancing, Enhancing to
\* Success or Enhancing to Error; a record is created Idle; and when the remote
\* call for a record begins, the record is already recorded as Enhancing.
C17_OnlyLegalTransitions ==
  [][/\ \A i \in Positions :
          i <= Len(images') /\ images'[i].status # images[i].status
            => <<images[i].status, images'[i].status>> \in Transitions
     /\ \A i \in 1..Len(images') : i > Len(images) => images'[i].status = IDLE
     /\ \A r \in 1..MaxRuns :
          runs[r].pc = "loop" /\ runs'[r].pc = "await"
            => \E i \in 1..Len(images') :
                 images'[i].id = CurrentId(r) /\ images'[i].status = ENHANCING]_vars

\* The messages of the three failure modes of enhanceImage as its caller
\* receives them: missing credential, transport or service error, response
\* without an image payload.
MissingCredential == ApiKeyMessage
ServiceError      == FailedMessage(<<"network">>)
NoImagePayload    == FailedMessage(NoImageMessage)

\* C18: every failure of enhanceImage reaches enhanceSingleImage as an Error with
\* a message, so a record in Error carries the message of its failure mode and
\* never the text the caller substitutes for a value that is no Error: without a
\* credential the configuration message, with one the message of the service
\* error or of the response without an image, prefixed alike.
C18_SingleErrorKind ==
  \A i \in Positions :
     images[i].status = ERROR
       => /\ images[i].error # FallbackMessage
          /\ images[i].error # Undefined
          /\ IF apiKey
             THEN images[i].error \in {ServiceError, NoImagePayload, UnknownMessage}
             ELSE images[i].error = MissingCredential

\* Two records are in Error, one for a service error and one for a response
\* without an image.
C18_Witness ==
  \E i, j \in Positions :
     /\ images[i].status = ERROR /\ images[i].error = ServiceError
     /\ images[j].status = ERROR /\ images[j].error = NoImagePayload

\* The positions of the records recorded as Enhancing.
EnhancingPositions == {i \in Positions : images[i].status = ENHANCING}

\* C19: at most one enhanceAll run is in progress, at most one remote call is in
\* flight and at most one record has status Enhancing.
C19_OneRunOneEnhancing ==
  /\ Cardinality({r \in 1..MaxRuns : Active(r)}) <= 1
  /\ inFlight <= 1
  /\ Cardinality(EnhancingPositions) <= 1

\* Run r is writing the status of the record it is working on.
Writing(r) == Active(r) /\ runs[r].k <= Len(idleImages(r))

\* C20: no update to the list is lost.  An upload that completes appends its
\* records to the latest list and leaves every record before them as it is, the
\* statuses a run has written included; a step that changes a status is a write
\* of a run, keeps every record of the latest list, those appended since the run
\* began included, and changes only records with the id it writes to.
C20_NoLostUpdate ==
  [][/\ Len(images') >= Len(images)
     /\ \A u \in 1..MaxUploads :
           (uploads[u].active /\ ~uploads'[u].active /\ images' # images)
             => AppendsOnePerImage(u)
     /\ (\E i \in Positions : images'[i].status # images[i].status)
           => /\ Len(images') = Len(images)
              /\ \E r \in 1..MaxRuns :
                    /\ Writing(r)
                    /\ \A i \in Positions :
                          images[i].id # CurrentId(r) => images'[i] = images[i]]_vars

\* An upload completed while a run awaited its remote call, and the call has
\* settled since: the record of the run is in Success or Error and the appended
\* record is in the list, Idle.
C20_Witness ==
  \E r \in 1..MaxRuns :
     /\ runs[r].pc = "loop"
     /\ runs[r].k > 1
     /\ Len(images) > Len(runs[r].images)
     /\ \A i \in SnapshotPositions(r) : Terminal(images[i])
     /\ images[Len(images)].status = IDLE

====
